---- MODULE Spec2Model ----
(***************************************************************************)
(* Model of filmweb_scraper_api.py: three source scrapers (Filmweb, IMDb,  *)
(* Rotten Tomatoes) run concurrently under asyncio.gather by               *)
(* get_all_ratings, and the profile scraper scrape_filmweb_user_recent     *)
(* called by get_filmweb_user_activity.                                    *)
(*                                                                         *)
(* Data representation                                                     *)
(*   str            a sequence of one-character strings                    *)
(*   Optional[T]    a sequence of length <= 1: None is <<>>, v is <<v>>    *)
(*   float          [n |-> numerator, d |-> power of ten], trailing zeros  *)
(*                  removed, so 8.6 is [n |-> 86, d |-> 10]                *)
(*   a parsed page  a record of what each CSS selector of the code finds   *)
(*                  in it (the first matching node, or None)               *)
(* Every coroutine is cut at its awaits: one action per stretch of code    *)
(* between two suspension points.                                          *)
(***************************************************************************)
EXTENDS Integers, Sequences, FiniteSets, TLC

VARIABLES
    gpc,        \* get_all_ratings: "idle", "gathering", "returned", "raised"
    title,      \* its title argument
    year,       \* its year argument (Optional[str])
    client,     \* its httpx.AsyncClient: "none", "open", "closed"
    pc,         \* per scraper coroutine: "init", "search", "details", "done", "raised"
    url,        \* per scraper: the local holding the detail URL (Optional[str])
    fetched,    \* per scraper: the URLs it passed to client.get, in order
    lateFetch,  \* a client.get was issued on a client that was not open
    result,     \* per scraper: the value it returned (Optional[RatingSource])
    combined,   \* the value get_all_ratings returned (Optional[CombinedMovieData])
    failure,    \* per scraper: the first failure it met ("none" so far)
    last,       \* the latest scraper step and the status of the response it got
    upc,        \* get_filmweb_user_activity: "idle", "fetching", "returned", "raised"
    username,   \* its username argument
    uclient,    \* its httpx.AsyncClient: "none", "open", "closed"
    ufetched,   \* the URLs scrape_filmweb_user_recent passed to client.get
    upage,      \* the response delivered to scrape_filmweb_user_recent (Optional)
    uresult,    \* the value get_filmweb_user_activity returned (Optional)
    call,       \* a stretch of scraper code applied on its own: which, and its input
    out         \* what that stretch produced (Optional)

vars == <<gpc, title, year, client, pc, url, fetched, lateFetch, result,
          failure, combined, last, upc, username, uclient, ufetched, upage,
          uresult, call, out>>

gvars == <<gpc, title, year, client, pc, url, fetched, lateFetch, result,
           failure, combined, last>>

uvars == <<upc, username, uclient, ufetched, upage, uresult>>

fvars == <<call, out>>

(***************************************************************************)
(* Optional values and strings                                             *)
(***************************************************************************)
None == <<>>

Some(v) == <<v>>

Val(o) == o[1]

StartsWith(s, p) == Len(s) >= Len(p) /\ SubSeq(s, 1, Len(p)) = p

Whitespace == {" "}

RECURSIVE lstrip(_)
lstrip(s) == IF s # <<>> /\ Head(s) \in Whitespace THEN lstrip(Tail(s)) ELSE s

RECURSIVE rstrip(_)
rstrip(s) ==
    IF s # <<>> /\ s[Len(s)] \in Whitespace
    THEN rstrip(SubSeq(s, 1, Len(s) - 1))
    ELSE s

strip(s) == rstrip(lstrip(s))

\* str.replace(old, new) for a one-character old
replace(s, old, new) ==
    LET RECURSIVE rep(_)
        rep(t) == IF t = <<>> THEN <<>>
                  ELSE (IF Head(t) = old THEN new ELSE <<Head(t)>>) \o rep(Tail(t))
    IN rep(s)

\* str.split(sep)[0] for a one-character sep
split0(s, sep) ==
    LET hits == {i \in 1..Len(s) : s[i] = sep}
    IN IF hits = {} THEN s
       ELSE SubSeq(s, 1, (CHOOSE i \in hits : \A j \in hits : i <= j) - 1)

\* str(x) as an f-string formats an Optional[str]
format(o) == IF o = None THEN <<"N","o","n","e">> ELSE Val(o)

\* truth value of an Optional[str]: None and "" are false
truthy(o) == o # None /\ Val(o) # <<>>

(***************************************************************************)
(* Numbers                                                                 *)
(***************************************************************************)
Digits == {"0","1","2","3","4","5","6","7","8","9"}

DigitVal(c) ==
    CASE c = "0" -> 0 [] c = "1" -> 1 [] c = "2" -> 2 [] c = "3" -> 3
      [] c = "4" -> 4 [] c = "5" -> 5 [] c = "6" -> 6 [] c = "7" -> 7
      [] c = "8" -> 8 [] c = "9" -> 9

AllDigits(s) == \A i \in 1..Len(s) : s[i] \in Digits

RECURSIVE DigitsVal(_)
DigitsVal(s) ==
    IF s = <<>> THEN 0
    ELSE DigitsVal(SubSeq(s, 1, Len(s) - 1)) * 10 + DigitVal(s[Len(s)])

RECURSIVE Pow10(_)
Pow10(k) == IF k = 0 THEN 1 ELSE 10 * Pow10(k - 1)

RECURSIVE Float(_, _)
Float(n, d) ==
    IF d > 1 /\ n % 10 = 0 THEN Float(n \div 10, d \div 10) ELSE [n |-> n, d |-> d]

ValueError == [ok |-> FALSE]

Parsed(v) == [ok |-> TRUE, val |-> v]

\* float(s) of Python on the model's alphabet: surrounding whitespace is
\* ignored, then an optional sign, then digits with at most one point and at
\* least one digit.  (Exponents, "inf", "nan" and "_" need characters that
\* the score texts of the model do not contain.)
float(s) ==
    LET t      == strip(s)
        signed == t # <<>> /\ t[1] \in {"-", "+"}
        body   == IF signed THEN Tail(t) ELSE t
        dots   == {i \in 1..Len(body) : body[i] = "."}
    IN IF Cardinality(dots) > 1 THEN ValueError
       ELSE LET p  == IF dots = {} THEN Len(body) + 1 ELSE CHOOSE i \in dots : TRUE
                ip == SubSeq(body, 1, p - 1)
                fp == SubSeq(body, p + 1, Len(body))
                m  == DigitsVal(ip \o fp)
            IN IF ~AllDigits(ip) \/ ~AllDigits(fp) \/ Len(ip) + Len(fp) = 0
               THEN ValueError
               ELSE Parsed(Float(IF signed /\ t[1] = "-" THEN 0 - m ELSE m,
                                 Pow10(Len(fp))))

\* int(s) of Python on the model's alphabet: surrounding whitespace is
\* ignored, then an optional sign, then at least one digit.
int(s) ==
    LET t      == strip(s)
        signed == t # <<>> /\ t[1] \in {"-", "+"}
        body   == IF signed THEN Tail(t) ELSE t
    IN IF body = <<>> \/ ~AllDigits(body) THEN ValueError
       ELSE Parsed(IF signed /\ t[1] = "-" THEN 0 - DigitsVal(body)
                   ELSE DigitsVal(body))

(***************************************************************************)
(* URLs                                                                    *)
(***************************************************************************)
Unreserved == Digits \cup {"M", "a", "b", "x", "_", ".", "-", "~", "/"}

\* urllib.parse.quote(s): unreserved characters and "/" are kept, any other
\* character becomes its percent escape
PercentEscape(c) ==
    CASE c = " " -> <<"%","2","0">>
      [] c = "&" -> <<"%","2","6">>
      [] c = "?" -> <<"%","3","F">>
      [] c = "%" -> <<"%","2","5">>

RECURSIVE quote(_)
quote(s) ==
    IF s = <<>> THEN <<>>
    ELSE (IF Head(s) \in Unreserved THEN <<Head(s)>> ELSE PercentEscape(Head(s)))
         \o quote(Tail(s))

FilmwebOrigin == <<"h","t","t","p","s",":","/","/","w","w","w",".","f","i","l","m","w","e","b",".","p","l">>

ImdbOrigin == <<"h","t","t","p","s",":","/","/","w","w","w",".","i","m","d","b",".","c","o","m">>

RottenOrigin == <<"h","t","t","p","s",":","/","/","w","w","w",".","r","o","t","t","e","n","t","o","m","a","t","o","e","s",".","c","o","m">>

\* httpx refuses a URL without an http:// or https:// scheme before anything
\* is sent: client.get raises
HasScheme(u) ==
    \/ StartsWith(u, <<"h","t","t","p",":","/","/">>)
    \/ StartsWith(u, <<"h","t","t","p","s",":","/","/">>)

(***************************************************************************)
(* Inputs: request arguments, responses and page contents                  *)
(***************************************************************************)
Sources == {"Filmweb", "IMDb", "Rotten Tomatoes"}

Titles == {<<"a", " ", "b">>, <<"M">>}

Years == {None, Some(<<"1","9">>)}

Statuses == {200, 404}

\* href attributes of a candidate link: missing, relative (with a query
\* string), absolute
Hrefs == {None,
          Some(<<"/","m","?","a">>),
          Some(<<"h","t","t","p",":","/","/","x">>)}

\* what select_one returns for a link selector: None or a tag with its href
LinkNodes == {None} \cup {Some([href |-> h]) : h \in Hrefs}

ScoreTexts == {<<"8", ",", "6">>, <<" ", "7", ".", "5">>, <<"9", "2", "%">>}

CountTexts == {<<" ", "1", "k">>}

\* what select_one returns for a text selector: None or a tag with its text
ScoreNodes == {None} \cup {Some([text |-> t]) : t \in ScoreTexts}

CountNodes == {None} \cup {Some([text |-> t]) : t \in CountTexts}

FilmwebSearchPages == [preview__link : LinkNodes, searchResult__link : LinkNodes]

FilmwebDetailPages == [rateValue : ScoreNodes, count : CountNodes]

ImdbSearchPages == [summary_item : LinkNodes]

ImdbDetailPages == [score_span : ScoreNodes, score_sibling_div : CountNodes]

RottenSearchPages == [search_page_result_a : LinkNodes, search_results_a : LinkNodes]

RottenDetailPages == [criticsScore_rt_text : ScoreNodes, score_board_rt_text : ScoreNodes]

NetworkError == [raises |-> TRUE]

\* the outcomes of `await c.get(u, headers=HEADERS)` on client state c: an
\* exception (network error, timeout, closed client, URL without scheme) or a
\* response of any status whose body parses to one of the pages
Responses(c, u, pages) ==
    {NetworkError} \cup
    (IF c = "open" /\ HasScheme(u)
     THEN [raises : {FALSE}, status : Statuses, content : pages]
     ELSE {})

(***************************************************************************)
(* Data classes                                                            *)
(***************************************************************************)
RatingSource(source, rating, vote_count, u) ==
    [source |-> source, rating |-> rating, vote_count |-> vote_count, url |-> u]

CombinedMovieData(query_title, y, ratings) ==
    [query_title |-> query_title, year |-> y, ratings |-> ratings]

UserRating(t, user_rating) ==
    [title |-> t, user_rating |-> user_rating, timestamp |-> None]

(***************************************************************************)
(* How a stretch of a coroutine ends: it raises, it returns a value, or it *)
(* suspends in client.get(u)                                               *)
(***************************************************************************)
Raise == [kind |-> "raise"]

Return(v) == [kind |-> "return", value |-> v]

Await(u) == [kind |-> "await", url |-> u]

(***************************************************************************)
(* scrape_filmweb                                                          *)
(***************************************************************************)
\* variant: the handler lets the exception through
scrape_filmweb_except_reraise(o) == o

\* `except Exception` of scrape_filmweb
scrape_filmweb_except(o) ==
    IF o.kind = "raise" THEN Return(RatingSource("Filmweb", None, None, None)) ELSE o

\* up to the first await
scrape_filmweb_query(t, y) ==
    LET query == IF truthy(y) THEN t \o <<" ">> \o Val(y) ELSE t
    IN Await(<<"h","t","t","p","s",":","/","/","w","w","w",".","f","i","l","m","w","e","b",".","p","l","/","s","e","a","r","c","h","?","q","=">>
             \o quote(query))

\* variant: the two selectors are tried in the other order
scrape_filmweb_result_later_first(resp) ==
    IF resp.raises THEN Raise
    ELSE LET soup == resp.content
             res  == IF soup.searchResult__link # None THEN soup.searchResult__link
                     ELSE soup.preview__link
         IN IF res = None THEN Return(RatingSource("Filmweb", None, None, None))
            ELSE LET href == Val(res).href
                 IN IF href = None THEN Raise
                    ELSE IF StartsWith(Val(href), <<"/">>)
                         THEN Await(FilmwebOrigin \o Val(href))
                         ELSE Await(Val(href))

\* from the search response to the second await
scrape_filmweb_result(resp) ==
    IF resp.raises THEN Raise
    ELSE LET soup == resp.content
             res  == IF soup.preview__link # None THEN soup.preview__link
                     ELSE soup.searchResult__link
         IN IF res = None THEN Return(RatingSource("Filmweb", None, None, None))
            ELSE LET href == Val(res).href
                 IN IF href = None THEN Raise    \* None.startswith
                    ELSE IF StartsWith(Val(href), <<"/">>)
                         THEN Await(FilmwebOrigin \o Val(href))
                         ELSE Await(Val(href))

\* the text handed to float(): stripped, the decimal comma made a point
scrape_filmweb_score_text(text) == replace(strip(text), ",", <<".">>)

\* variant: a detail fetch that raised is issued again
scrape_filmweb_details_retry(resp, u) ==
    IF resp.raises THEN Await(u)
    ELSE LET rating_tag == resp.content.rateValue
             count_tag  == resp.content.count
             rating == IF rating_tag = None THEN ValueError
                       ELSE float(scrape_filmweb_score_text(Val(rating_tag).text))
             count  == IF count_tag = None THEN None
                       ELSE Some(strip(Val(count_tag).text))
         IN IF rating_tag = None
            THEN Return(RatingSource("Filmweb", None, count, Some(u)))
            ELSE IF ~rating.ok THEN Raise
                 ELSE Return(RatingSource("Filmweb", Some(rating.val), count, Some(u)))

\* from the detail response to the return
scrape_filmweb_details(resp, u) ==
    IF resp.raises THEN Raise
    ELSE LET rating_tag == resp.content.rateValue
             count_tag  == resp.content.count
             rating == IF rating_tag = None THEN ValueError
                       ELSE float(scrape_filmweb_score_text(Val(rating_tag).text))
             count  == IF count_tag = None THEN None
                       ELSE Some(strip(Val(count_tag).text))
         IN IF rating_tag = None
            THEN Return(RatingSource("Filmweb", None, count, Some(u)))
            ELSE IF ~rating.ok THEN Raise
                 ELSE Return(RatingSource("Filmweb", Some(rating.val), count, Some(u)))

(***************************************************************************)
(* scrape_imdb                                                             *)
(***************************************************************************)
scrape_imdb_except(o) ==
    IF o.kind = "raise" THEN Return(RatingSource("IMDb", None, None, None)) ELSE o

scrape_imdb_query(t, y) ==
    LET query == IF truthy(y) THEN t \o <<" ">> \o Val(y) ELSE t
    IN Await(<<"h","t","t","p","s",":","/","/","w","w","w",".","i","m","d","b",".","c","o","m","/","f","i","n","d","?","q","=">>
             \o quote(query) \o <<"&","s","=","t","t">>)

scrape_imdb_result(resp) ==
    IF resp.raises THEN Raise
    ELSE LET result_link == resp.content.summary_item
         IN IF result_link = None THEN Return(RatingSource("IMDb", None, None, None))
            ELSE LET href == Val(result_link).href
                 IN Await(split0(ImdbOrigin \o format(href), "?"))

\* the text handed to float(): stripped
scrape_imdb_score_text(text) == strip(text)

\* variant: the url argument of the returned RatingSource is left out
scrape_imdb_details_no_url(resp, u) ==
    IF resp.raises THEN Raise
    ELSE LET rating_span == resp.content.score_span
             votes_div   == resp.content.score_sibling_div
             rating == IF rating_span = None THEN ValueError
                       ELSE float(scrape_imdb_score_text(Val(rating_span).text))
             votes  == IF votes_div = None THEN None
                       ELSE Some(strip(Val(votes_div).text))
         IN IF rating_span = None
            THEN Return(RatingSource("IMDb", None, votes, None))
            ELSE IF ~rating.ok THEN Raise
                 ELSE Return(RatingSource("IMDb", Some(rating.val), votes, None))

scrape_imdb_details(resp, u) ==
    IF resp.raises THEN Raise
    ELSE LET rating_span == resp.content.score_span
             votes_div   == resp.content.score_sibling_div
             rating == IF rating_span = None THEN ValueError
                       ELSE float(scrape_imdb_score_text(Val(rating_span).text))
             votes  == IF votes_div = None THEN None
                       ELSE Some(strip(Val(votes_div).text))
         IN IF rating_span = None
            THEN Return(RatingSource("IMDb", None, votes, Some(u)))
            ELSE IF ~rating.ok THEN Raise
                 ELSE Return(RatingSource("IMDb", Some(rating.val), votes, Some(u)))

(***************************************************************************)
(* scrape_rotten_tomatoes                                                  *)
(***************************************************************************)
scrape_rotten_tomatoes_except(o) ==
    IF o.kind = "raise" THEN Return(RatingSource("Rotten Tomatoes", None, None, None))
    ELSE o

scrape_rotten_tomatoes_query(t, y) ==
    Await(<<"h","t","t","p","s",":","/","/","w","w","w",".","r","o","t","t","e","n","t","o","m","a","t","o","e","s",".","c","o","m","/","s","e","a","r","c","h","?","s","e","a","r","c","h","=">>
          \o quote(t))

\* variant: when no link is found the site's front page is fetched instead
scrape_rotten_tomatoes_result_fallback_page(resp) ==
    IF resp.raises THEN Raise
    ELSE LET soup == resp.content
             movie_link == IF soup.search_page_result_a # None
                           THEN soup.search_page_result_a
                           ELSE soup.search_results_a
         IN IF movie_link = None
            THEN Await(RottenOrigin)
            ELSE LET href == Val(movie_link).href
                 IN IF href = None THEN Raise
                    ELSE IF ~StartsWith(Val(href), <<"h","t","t","p">>)
                         THEN Await(RottenOrigin \o Val(href))
                         ELSE Await(Val(href))

scrape_rotten_tomatoes_result(resp) ==
    IF resp.raises THEN Raise
    ELSE LET soup == resp.content
             movie_link == IF soup.search_page_result_a # None
                           THEN soup.search_page_result_a
                           ELSE soup.search_results_a
         IN IF movie_link = None
            THEN Return(RatingSource("Rotten Tomatoes", None, None, None))
            ELSE LET href == Val(movie_link).href
                 IN IF href = None THEN Raise    \* None.startswith
                    ELSE IF ~StartsWith(Val(href), <<"h","t","t","p">>)
                         THEN Await(RottenOrigin \o Val(href))
                         ELSE Await(Val(href))

\* the text handed to float(): stripped, the percent signs removed
scrape_rotten_tomatoes_score_text(text) == replace(strip(text), "%", <<>>)

\* the inner try/except around float(): a ValueError leaves rating = None
scrape_rotten_tomatoes_score(score_tag) ==
    IF score_tag = None THEN None
    ELSE LET r == float(scrape_rotten_tomatoes_score_text(Val(score_tag).text))
         IN IF r.ok THEN Some(r.val) ELSE None

\* variant: the vote count is read from the page, as the other scrapers do
scrape_rotten_tomatoes_details_votes(resp, u) ==
    IF resp.raises THEN Raise
    ELSE LET d_soup == resp.content
             score_tag == IF d_soup.criticsScore_rt_text # None
                          THEN d_soup.criticsScore_rt_text
                          ELSE d_soup.score_board_rt_text
             votes_tag == d_soup.score_board_rt_text
         IN Return(RatingSource("Rotten Tomatoes",
                                scrape_rotten_tomatoes_score(score_tag),
                                IF votes_tag = None THEN None
                                ELSE Some(strip(Val(votes_tag).text)),
                                Some(u)))

scrape_rotten_tomatoes_details(resp, u) ==
    IF resp.raises THEN Raise
    ELSE LET d_soup == resp.content
             score_tag == IF d_soup.criticsScore_rt_text # None
                          THEN d_soup.criticsScore_rt_text
                          ELSE d_soup.score_board_rt_text
         IN Return(RatingSource("Rotten Tomatoes",
                                scrape_rotten_tomatoes_score(score_tag), None, Some(u)))

(***************************************************************************)
(* scrape_filmweb_user_recent                                              *)
(***************************************************************************)
MaxEntries == 2

Usernames == {<<"a">>, <<"b">>}

\* the phrase of line 175 (its l-with-stroke is written "l")
Phrase == <<"o","c","e","n","i","l"," ","n","a">>

TitleNodes == {None, Some([text |-> <<" ", "T">>])}

UserRateNodes == {None, Some([text |-> <<"8">>])}

\* texts of the .span-10 box: without the phrase, the phrase followed by 7,
\* by 8 and more text, by a word, and by 7/10
SpanTexts == {<<"x">>,
              Phrase \o <<" ", "7">>,
              <<"x", " ">> \o Phrase \o <<" ", "8", " ", "x">>,
              Phrase \o <<" ", "x">>,
              Phrase \o <<" ", "7", "/", "1", "0">>}

SpanNodes == {None} \cup {Some([text |-> t]) : t \in SpanTexts}

\* one .voteCommentBox node: what select_one finds inside it
Entries == [filmTitle : TitleNodes, userRate : UserRateNodes, span_10 : SpanNodes]

\* soup.select(".voteCommentBox"): the entry nodes in document order
UserPages == UNION {[1..k -> Entries] : k \in 0..MaxEntries}

\* position of the first occurrence of p in s, 0 when there is none
IndexOf(s, p) ==
    LET hits == {i \in 1..(Len(s) - Len(p) + 1) : SubSeq(s, i, i + Len(p) - 1) = p}
    IN IF hits = {} THEN 0 ELSE CHOOSE i \in hits : \A j \in hits : i <= j

\* p in s
contains(s, p) == IndexOf(s, p) # 0

\* s.split(p)[1], for s that contains p
split1(s, p) ==
    LET rest == SubSeq(s, IndexOf(s, p) + Len(p), Len(s))
        j    == IndexOf(rest, p)
    IN IF j = 0 THEN rest ELSE SubSeq(rest, 1, j - 1)

\* the for loop over items, from the entries still to visit and the list built
\* so far
RECURSIVE scrape_filmweb_user_recent_loop(_, _)
scrape_filmweb_user_recent_loop(items, ratings) ==
    IF items = <<>> THEN Return(ratings)
    ELSE LET item      == Head(items)
             title_tag == item.filmTitle
             rate_tag  == item.userRate
             rate_box  == item.span_10
         IN IF rate_tag # None
            THEN scrape_filmweb_user_recent_loop(Tail(items), ratings)
            ELSE IF rate_box # None /\ contains(Val(rate_box).text, Phrase)
                 THEN LET rate_text == split0(strip(split1(Val(rate_box).text, Phrase)), " ")
                      IN IF title_tag = None THEN Raise        \* None.text
                         ELSE IF ~int(rate_text).ok THEN Raise
                         ELSE scrape_filmweb_user_recent_loop(Tail(items),
                                  Append(ratings,
                                         UserRating(strip(Val(title_tag).text),
                                                    int(rate_text).val)))
                 ELSE scrape_filmweb_user_recent_loop(Tail(items), ratings)

\* variant: the handler lets the exception through
scrape_filmweb_user_recent_except_reraise(o) == o

\* `except Exception` of scrape_filmweb_user_recent
scrape_filmweb_user_recent_except(o) ==
    IF o.kind = "raise" THEN Return(<<>>) ELSE o

\* from the profile response to the return
scrape_filmweb_user_recent(resp) ==
    scrape_filmweb_user_recent_except(
        IF resp.raises THEN Raise
        ELSE scrape_filmweb_user_recent_loop(resp.content, <<>>))

(***************************************************************************)
(* State machine                                                           *)
(***************************************************************************)
NoResponse == [task |-> "none", step |-> "none", status |-> 0]

\* status 0 stands for a client.get that raised
Delivered(s, step, resp) ==
    [task |-> s, step |-> step, status |-> IF resp.raises THEN 0 ELSE resp.status]

\* what went wrong with a search response, given the nodes found by the
\* selectors of the chain, in the order of the chain
SearchFailure(resp, chain) ==
    LET hits == {i \in 1..Len(chain) : chain[i] # None}
    IN IF resp.raises THEN "fetch"
       ELSE IF hits = {} THEN "no_match"
       ELSE IF Val(chain[CHOOSE i \in hits : \A j \in hits : i <= j]).href = None
            THEN "no_href"
       ELSE "none"

\* what went wrong with a detail response, given the score text handed to
\* float() (None when no score node was found)
DetailsFailure(resp, text) ==
    IF resp.raises THEN "fetch"
    ELSE IF text # None /\ ~float(Val(text)).ok THEN "unparsable"
    ELSE "none"

\* the first failure of scraper s is kept
Failed(s, kind) ==
    failure' = IF failure[s] = "none" THEN [failure EXCEPT ![s] = kind] ELSE failure

NoCall == [fn |-> "none", source |-> "none", page |-> <<>>]

\* no request is being served
Idle ==
    /\ gpc = "idle"
    /\ title = <<>>
    /\ year = None
    /\ client = "none"
    /\ pc = [s \in Sources |-> "init"]
    /\ url = [s \in Sources |-> None]
    /\ fetched = [s \in Sources |-> <<>>]
    /\ lateFetch = FALSE
    /\ result = [s \in Sources |-> None]
    /\ combined = None
    /\ failure = [s \in Sources |-> "none"]
    /\ last = NoResponse
    /\ upc = "idle"
    /\ username = <<>>
    /\ uclient = "none"
    /\ ufetched = <<>>
    /\ upage = None
    /\ uresult = None

Init ==
    /\ Idle
    /\ call = NoCall
    /\ out = None

\* variant: the detail URL is kept in one module-level variable that all
\* scrapers write and read
Advance_shared_url(s, o) ==
    /\ pc' = [pc EXCEPT ![s] = CASE o.kind = "await" ->
                                      IF pc[s] = "init" THEN "search" ELSE "details"
                                 [] o.kind = "return" -> "done"
                                 [] o.kind = "raise" -> "raised"]
    /\ url' = IF o.kind = "await" /\ pc[s] # "init"
              THEN [t \in Sources |-> Some(o.url)] ELSE url
    /\ fetched' = IF o.kind = "await"
                  THEN [fetched EXCEPT ![s] = Append(@, o.url)] ELSE fetched
    /\ lateFetch' = (lateFetch \/ (o.kind = "await" /\ client # "open"))
    /\ result' = IF o.kind = "return"
                 THEN [result EXCEPT ![s] = Some(o.value)] ELSE result
    /\ UNCHANGED <<gpc, title, year, client, combined>>
    /\ UNCHANGED <<uvars, fvars>>

\* scraper s ends a stretch of its code with outcome o
Advance(s, o) ==
    /\ pc' = [pc EXCEPT ![s] = CASE o.kind = "await" ->
                                      IF pc[s] = "init" THEN "search" ELSE "details"
                                 [] o.kind = "return" -> "done"
                                 [] o.kind = "raise" -> "raised"]
    /\ url' = IF o.kind = "await" /\ pc[s] # "init"
              THEN [url EXCEPT ![s] = Some(o.url)] ELSE url
    /\ fetched' = IF o.kind = "await"
                  THEN [fetched EXCEPT ![s] = Append(@, o.url)] ELSE fetched
    /\ lateFetch' = (lateFetch \/ (o.kind = "await" /\ client # "open"))
    /\ result' = IF o.kind = "return"
                 THEN [result EXCEPT ![s] = Some(o.value)] ELSE result
    /\ UNCHANGED <<gpc, title, year, client, combined>>
    /\ UNCHANGED <<uvars, fvars>>

\* get_all_ratings up to the await of gather: the client is opened and the
\* three coroutines are scheduled
get_all_ratings_call ==
    /\ gpc = "idle" /\ upc = "idle"
    /\ \E t \in Titles, y \in Years :
        /\ title' = t
        /\ year' = y
    /\ gpc' = "gathering"
    /\ client' = "open"
    /\ UNCHANGED <<pc, url, fetched, lateFetch, result, failure, combined, last>>
    /\ UNCHANGED <<uvars, fvars>>

scrape_filmweb_start ==
    /\ gpc # "idle" /\ pc["Filmweb"] = "init"
    /\ Advance("Filmweb", scrape_filmweb_except(scrape_filmweb_query(title, year)))
    /\ UNCHANGED <<failure, last>>

scrape_filmweb_searched ==
    /\ pc["Filmweb"] = "search"
    /\ \E resp \in Responses(client, fetched["Filmweb"][1], FilmwebSearchPages) :
        /\ Advance("Filmweb", scrape_filmweb_except(scrape_filmweb_result(resp)))
        /\ last' = Delivered("Filmweb", "search", resp)
        /\ Failed("Filmweb",
                  SearchFailure(resp, IF resp.raises THEN <<>>
                                      ELSE <<resp.content.preview__link,
                                             resp.content.searchResult__link>>))

scrape_filmweb_detailed ==
    /\ pc["Filmweb"] = "details"
    /\ \E resp \in Responses(client, Val(url["Filmweb"]), FilmwebDetailPages) :
        /\ Advance("Filmweb",
                   scrape_filmweb_except(scrape_filmweb_details(resp, Val(url["Filmweb"]))))
        /\ last' = Delivered("Filmweb", "details", resp)
        /\ Failed("Filmweb",
                  DetailsFailure(resp,
                      IF resp.raises \/ resp.content.rateValue = None THEN None
                      ELSE Some(scrape_filmweb_score_text(Val(resp.content.rateValue).text))))

scrape_imdb_start ==
    /\ gpc # "idle" /\ pc["IMDb"] = "init"
    /\ Advance("IMDb", scrape_imdb_except(scrape_imdb_query(title, year)))
    /\ UNCHANGED <<failure, last>>

scrape_imdb_searched ==
    /\ pc["IMDb"] = "search"
    /\ \E resp \in Responses(client, fetched["IMDb"][1], ImdbSearchPages) :
        /\ Advance("IMDb", scrape_imdb_except(scrape_imdb_result(resp)))
        /\ last' = Delivered("IMDb", "search", resp)
        /\ Failed("IMDb",
                  SearchFailure(resp, IF resp.raises THEN <<>>
                                      ELSE <<resp.content.summary_item>>))

scrape_imdb_detailed ==
    /\ pc["IMDb"] = "details"
    /\ \E resp \in Responses(client, Val(url["IMDb"]), ImdbDetailPages) :
        /\ Advance("IMDb", scrape_imdb_except(scrape_imdb_details(resp, Val(url["IMDb"]))))
        /\ last' = Delivered("IMDb", "details", resp)
        /\ Failed("IMDb",
                  DetailsFailure(resp,
                      IF resp.raises \/ resp.content.score_span = None THEN None
                      ELSE Some(scrape_imdb_score_text(Val(resp.content.score_span).text))))

scrape_rotten_tomatoes_start ==
    /\ gpc # "idle" /\ pc["Rotten Tomatoes"] = "init"
    /\ Advance("Rotten Tomatoes",
               scrape_rotten_tomatoes_except(scrape_rotten_tomatoes_query(title, year)))
    /\ UNCHANGED <<failure, last>>

scrape_rotten_tomatoes_searched ==
    /\ pc["Rotten Tomatoes"] = "search"
    /\ \E resp \in Responses(client, fetched["Rotten Tomatoes"][1], RottenSearchPages) :
        /\ Advance("Rotten Tomatoes",
                   scrape_rotten_tomatoes_except(scrape_rotten_tomatoes_result(resp)))
        /\ last' = Delivered("Rotten Tomatoes", "search", resp)
        /\ Failed("Rotten Tomatoes",
                  SearchFailure(resp, IF resp.raises THEN <<>>
                                      ELSE <<resp.content.search_page_result_a,
                                             resp.content.search_results_a>>))

scrape_rotten_tomatoes_detailed ==
    /\ pc["Rotten Tomatoes"] = "details"
    /\ \E resp \in Responses(client, Val(url["Rotten Tomatoes"]), RottenDetailPages) :
        /\ Advance("Rotten Tomatoes",
                   scrape_rotten_tomatoes_except(
                       scrape_rotten_tomatoes_details(resp, Val(url["Rotten Tomatoes"]))))
        /\ last' = Delivered("Rotten Tomatoes", "details", resp)
        /\ Failed("Rotten Tomatoes",
                  DetailsFailure(resp,
                      IF resp.raises THEN None
                      ELSE IF resp.content.criticsScore_rt_text # None
                      THEN Some(scrape_rotten_tomatoes_score_text(
                                    Val(resp.content.criticsScore_rt_text).text))
                      ELSE IF resp.content.score_board_rt_text # None
                      THEN Some(scrape_rotten_tomatoes_score_text(
                                    Val(resp.content.score_board_rt_text).text))
                      ELSE None))

\* asyncio.gather without return_exceptions: the await ends when every
\* coroutine has returned, or as soon as one of them has raised
gather_settled ==
    \/ \E s \in Sources : pc[s] = "raised"
    \/ \A s \in Sources : pc[s] = "done"

\* variant: the results are collected as the coroutines complete, so the one
\* that completed last comes last
gather_results_as_completed ==
    LET order == <<"Filmweb", "IMDb", "Rotten Tomatoes">>
        early == SelectSeq(order, LAMBDA s : s # last.task)
    IN <<Val(result[early[1]]), Val(result[early[2]]), Val(result[last.task])>>

\* the list gather returns: the results in the order of its arguments
gather_results ==
    <<Val(result["Filmweb"]), Val(result["IMDb"]), Val(result["Rotten Tomatoes"])>>

\* variant: the await ends with the first coroutine that completes and the
\* results available by then are returned
get_all_ratings_return_first_completed ==
    /\ gpc = "gathering"
    /\ \E s \in Sources : pc[s] = "done"
    /\ client' = "closed"
    /\ gpc' = "returned"
    /\ combined' = Some(CombinedMovieData(title, year,
                        SelectSeq(<<result["Filmweb"], result["IMDb"],
                                    result["Rotten Tomatoes"]>>,
                                  LAMBDA r : r # None)))
    /\ UNCHANGED <<title, year, pc, url, fetched, lateFetch, result, failure, last>>
    /\ UNCHANGED <<uvars, fvars>>

\* variant: the client is created without `async with` and never closed
get_all_ratings_return_client_leak ==
    /\ gpc = "gathering"
    /\ gather_settled
    /\ client' = client
    /\ IF \E s \in Sources : pc[s] = "raised"
       THEN /\ gpc' = "raised"
            /\ combined' = None
       ELSE /\ gpc' = "returned"
            /\ combined' = Some(CombinedMovieData(title, year, gather_results))
    /\ UNCHANGED <<title, year, pc, url, fetched, lateFetch, result, failure, last>>
    /\ UNCHANGED <<uvars, fvars>>

\* get_all_ratings from the end of the await to its return: the client is
\* closed on leaving the `async with` block, normally or with the exception
get_all_ratings_return ==
    /\ gpc = "gathering"
    /\ gather_settled
    /\ client' = "closed"
    /\ IF \E s \in Sources : pc[s] = "raised"
       THEN /\ gpc' = "raised"
            /\ combined' = None
       ELSE /\ gpc' = "returned"
            /\ combined' = Some(CombinedMovieData(title, year, gather_results))
    /\ UNCHANGED <<title, year, pc, url, fetched, lateFetch, result, failure, last>>
    /\ UNCHANGED <<uvars, fvars>>

\* get_filmweb_user_activity up to the await of client.get in
\* scrape_filmweb_user_recent
get_filmweb_user_activity_call ==
    /\ gpc = "idle" /\ upc = "idle"
    /\ \E u \in Usernames :
        /\ username' = u
        /\ ufetched' = <<(<<"h","t","t","p","s",":","/","/","w","w","w",".","f","i","l","m","w","e","b",".","p","l","/","u","s","e","r","/">> \o u)>>
    /\ upc' = "fetching"
    /\ uclient' = "open"
    /\ UNCHANGED <<upage, uresult>>
    /\ UNCHANGED <<gvars, fvars>>

\* from the profile response to the return of get_filmweb_user_activity
get_filmweb_user_activity_return ==
    /\ upc = "fetching"
    /\ \E resp \in Responses(uclient, ufetched[1], UserPages) :
        LET o == scrape_filmweb_user_recent(resp)
        IN /\ upage' = Some(resp)
           /\ IF o.kind = "raise"
              THEN /\ upc' = "raised"
                   /\ uresult' = None
              ELSE /\ upc' = "returned"
                   /\ uresult' = Some([username |-> username,
                                       recent_ratings |-> o.value])
    /\ uclient' = "closed"
    /\ UNCHANGED <<username, ufetched>>
    /\ UNCHANGED <<gvars, fvars>>

\* the response has been sent; the server waits for the next request
respond ==
    /\ \/ gpc \in {"returned", "raised"} /\ \A s \in Sources : pc[s] \in {"done", "raised"}
       \/ upc \in {"returned", "raised"}
    /\ gpc' = "idle"
    /\ title' = <<>>
    /\ year' = None
    /\ client' = "none"
    /\ pc' = [s \in Sources |-> "init"]
    /\ url' = [s \in Sources |-> None]
    /\ fetched' = [s \in Sources |-> <<>>]
    /\ lateFetch' = FALSE
    /\ result' = [s \in Sources |-> None]
    /\ combined' = None
    /\ failure' = [s \in Sources |-> "none"]
    /\ last' = NoResponse
    /\ upc' = "idle"
    /\ username' = <<>>
    /\ uclient' = "none"
    /\ ufetched' = <<>>
    /\ upage' = None
    /\ uresult' = None
    /\ UNCHANGED fvars

Next ==
    \/ get_all_ratings_call
    \/ scrape_filmweb_start
    \/ scrape_filmweb_searched
    \/ scrape_filmweb_detailed
    \/ scrape_imdb_start
    \/ scrape_imdb_searched
    \/ scrape_imdb_detailed
    \/ scrape_rotten_tomatoes_start
    \/ scrape_rotten_tomatoes_searched
    \/ scrape_rotten_tomatoes_detailed
    \/ get_all_ratings_return
    \/ get_filmweb_user_activity_call
    \/ get_filmweb_user_activity_return
    \/ respond

Spec == Init /\ [][Next]_vars

(***************************************************************************)
(* The synchronous stretches of the scrapers applied on their own to       *)
(* bounded inputs: the code from a search response to the next await, and  *)
(* the code from a detail response to the return                           *)
(***************************************************************************)
MaxTextLen == 3

ScoreAlphabet == {"8", "6", "9", "2", ",", "%", " "}

\* every score text of at most MaxTextLen characters
BoundedTexts == UNION {[1..k -> ScoreAlphabet] : k \in 0..MaxTextLen}

BoundedScoreNodes == {None} \cup {Some([text |-> t]) : t \in BoundedTexts}

\* href attributes: those of Hrefs, a relative path, a relative path without
\* leading slash, an absolute https URL
FnHrefs ==
    Hrefs \cup {Some(<<"/","f","i","l","m","/","1","2","3","4","5">>),
                Some(<<"m">>),
                Some(<<"h","t","t","p","s",":","/","/","x">>)}

FnLinkNodes == {None} \cup {Some([href |-> h]) : h \in FnHrefs}

\* the detail URL handed to the code after the detail response
FnUrl == <<"h","t","t","p",":","/","/","x">>

ResultCalls ==
    {[fn |-> "result", source |-> "Filmweb", page |-> p] :
        p \in [preview__link : FnLinkNodes, searchResult__link : FnLinkNodes]}
    \cup {[fn |-> "result", source |-> "IMDb", page |-> p] :
        p \in [summary_item : FnLinkNodes]}
    \cup {[fn |-> "result", source |-> "Rotten Tomatoes", page |-> p] :
        p \in [search_page_result_a : FnLinkNodes, search_results_a : FnLinkNodes]}

DetailsCalls ==
    {[fn |-> "details", source |-> "Filmweb", page |-> p] :
        p \in [rateValue : BoundedScoreNodes, count : CountNodes]}
    \cup {[fn |-> "details", source |-> "IMDb", page |-> p] :
        p \in [score_span : BoundedScoreNodes, score_sibling_div : CountNodes]}
    \cup {[fn |-> "details", source |-> "Rotten Tomatoes", page |-> p] :
        p \in [criticsScore_rt_text : BoundedScoreNodes, score_board_rt_text : {None}]
              \cup RottenDetailPages}

Ok(page) == [raises |-> FALSE, status |-> 200, content |-> page]

FnInit ==
    /\ Idle
    /\ call \in ResultCalls \cup DetailsCalls
    /\ out = None

\* the code between the search response and the next await (or the return, or
\* the exception it ends with)
apply_result ==
    /\ call.fn = "result" /\ out = None
    /\ out' = Some(CASE call.source = "Filmweb" -> scrape_filmweb_result(Ok(call.page))
                     [] call.source = "IMDb" -> scrape_imdb_result(Ok(call.page))
                     [] call.source = "Rotten Tomatoes" ->
                            scrape_rotten_tomatoes_result(Ok(call.page)))
    /\ UNCHANGED <<gvars, uvars, call>>

\* the code between the detail response and the return, with the except clause
apply_details ==
    /\ call.fn = "details" /\ out = None
    /\ out' = Some(CASE call.source = "Filmweb" ->
                            scrape_filmweb_except(
                                scrape_filmweb_details(Ok(call.page), FnUrl))
                     [] call.source = "IMDb" ->
                            scrape_imdb_except(
                                scrape_imdb_details(Ok(call.page), FnUrl))
                     [] call.source = "Rotten Tomatoes" ->
                            scrape_rotten_tomatoes_except(
                                scrape_rotten_tomatoes_details(Ok(call.page), FnUrl)))
    /\ UNCHANGED <<gvars, uvars, call>>

FnNext ==
    \/ apply_result
    \/ apply_details

FnSpec == FnInit /\ [][FnNext]_vars

(***************************************************************************)
(* Properties                                                              *)
(***************************************************************************)
Rating(s) == Val(result[s]).rating

\* every client.get issued by the three scrapers raised
AllFetchesFailed ==
    \A s \in Sources : failure[s] = "fetch" /\ Len(fetched[s]) = 1

\* C1: get_all_ratings always returns, and the ratings of the returned
\* CombinedMovieData are exactly three, from Filmweb, IMDb and Rotten
\* Tomatoes in this order, whichever scraper completed last.
C1_RatingsInSourceOrder ==
    /\ gpc # "raised"
    /\ gpc = "returned" =>
         /\ combined # None
         /\ Len(Val(combined).ratings) = 3
         /\ Val(combined).ratings[1].source = "Filmweb"
         /\ Val(combined).ratings[2].source = "IMDb"
         /\ Val(combined).ratings[3].source = "Rotten Tomatoes"

\* C1 witness: the call returned, Filmweb did both its fetches and was the last
\* scraper to complete, after IMDb had found a rating
C1_FilmwebCompletedLast ==
    /\ gpc = "returned"
    /\ last.task = "Filmweb"
    /\ Len(fetched["Filmweb"]) = 2
    /\ Rating("IMDb") # None
    /\ Val(combined).ratings[1].source = "Filmweb"

\* C2: when every fetch raised, get_all_ratings does not raise and returns a
\* CombinedMovieData with three ratings whose rating fields are all None.
C2_AllFetchesFailReturnsNones ==
    (gpc \in {"returned", "raised"} /\ AllFetchesFailed) =>
        /\ gpc = "returned"
        /\ combined # None
        /\ Val(combined).query_title = title
        /\ Val(combined).year = year
        /\ Len(Val(combined).ratings) = 3
        /\ \A i \in 1..3 : Val(combined).ratings[i].rating = None

\* C2 witness: the call returned after all three search fetches raised
C2_ReturnedWithNetworkDown ==
    /\ gpc = "returned"
    /\ AllFetchesFailed
    /\ \A i \in 1..3 : Val(combined).ratings[i].rating = None

\* C3 as stated: no scraper raises, each one returns a RatingSource tagged
\* with its own source, and a scraper that met a failure (fetch failure, no
\* selector match, link without href, unparsable score) returns rating None.
C3_ScraperFailureGivesNoneRating ==
    \A s \in Sources :
        /\ pc[s] # "raised"
        /\ pc[s] = "done" =>
             /\ result[s] # None
             /\ Val(result[s]).source = s
             /\ failure[s] # "none" => Rating(s) = None

\* C4 as stated: a response with a non-2xx status counts as a failed fetch;
\* on the search page the scraper returns rating None at once, with no detail
\* fetch, and on the detail page it returns rating None.
C4_Non2xxIsFetchFailure ==
    (last.task \in Sources /\ last.status # 0 /\ last.status \notin 200..299) =>
        /\ pc[last.task] = "done"
        /\ Rating(last.task) = None
        /\ last.step = "search" => Len(fetched[last.task]) = 1

\* C5 as stated: a scraper whose detail page carried a score text that float()
\* rejects returns rating None together with the detail URL it fetched.
C5_UrlReportedWhenScoreUnparsable ==
    \A s \in Sources :
        (pc[s] = "done" /\ failure[s] = "unparsable") =>
            /\ Rating(s) = None
            /\ Val(result[s]).url = url[s]
            /\ url[s] # None

\* C6: get_all_ratings is over only when all three scrapers have returned;
\* what it returns holds the result of each of them.
C6_ReturnsAfterAllSettled ==
    gpc \in {"returned", "raised"} =>
        /\ \A s \in Sources : pc[s] = "done" /\ result[s] # None
        /\ gpc = "returned"
        /\ Val(combined).ratings =
             <<Val(result["Filmweb"]), Val(result["IMDb"]),
               Val(result["Rotten Tomatoes"])>>

\* C6 witness: the call returned although Filmweb had failed on its search
\* fetch while IMDb went on to fetch a detail page
C6_ReturnedAfterEarlyFailure ==
    /\ gpc = "returned"
    /\ failure["Filmweb"] = "fetch"
    /\ Len(fetched["IMDb"]) = 2
    /\ last.task # "Filmweb"
    /\ Len(Val(combined).ratings) = 3

\* the entries, title texts and ratings of the delivered profile page
ProfileEntries == IF Val(upage).raises THEN <<>> ELSE Val(upage).content

RecentRatings == Val(uresult).recent_ratings

\* C7 as stated: every entry that has the structured rating element (and a
\* title) yields a UserRating whose rating is read from that element.
C7_StructuredRatingEmitted ==
    upc = "returned" =>
        \A i \in DOMAIN ProfileEntries :
            LET e == ProfileEntries[i]
            IN (e.userRate # None /\ e.filmTitle # None) =>
                   \E j \in DOMAIN RecentRatings :
                       RecentRatings[j] =
                           UserRating(strip(Val(e.filmTitle).text),
                                      int(Val(e.userRate).text).val)

\* the rating the free text of an entry states: the integer token after the
\* phrase, None when there is no phrase or no integer after it
PhraseRating(e) ==
    IF e.span_10 = None \/ ~contains(Val(e.span_10).text, Phrase) THEN None
    ELSE LET token == split0(strip(split1(Val(e.span_10).text, Phrase)), " ")
         IN IF int(token).ok THEN Some(int(token).val) ELSE None

\* the ratings C8 expects from entries that all have a title and no
\* structured element: one per entry with an integer after the phrase
RECURSIVE ExpectedFromPhrases(_)
ExpectedFromPhrases(es) ==
    IF es = <<>> THEN <<>>
    ELSE (IF PhraseRating(Head(es)) = None THEN <<>>
          ELSE <<UserRating(strip(Val(Head(es).filmTitle).text),
                            Val(PhraseRating(Head(es))))>>)
         \o ExpectedFromPhrases(Tail(es))

\* C8 as stated: on a page whose entries have a title and no structured
\* element, every entry with an integer after the phrase is emitted with that
\* integer, in document order, and the other entries alone are dropped.
C8_UninterpretableEntryDroppedAlone ==
    (/\ upc = "returned"
     /\ \A i \in DOMAIN ProfileEntries :
            ProfileEntries[i].filmTitle # None /\ ProfileEntries[i].userRate = None)
    => RecentRatings = ExpectedFromPhrases(ProfileEntries)

\* C9: get_filmweb_user_activity never raises; when the profile fetch raised
\* or the page has no rating entries, or an entry is malformed, the list of
\* recent ratings it returns is empty.
C9_UserActivityNeverRaises ==
    /\ upc # "raised"
    /\ upc = "returned" =>
         /\ uresult # None
         /\ Val(uresult).username = username
         /\ (Val(upage).raises \/ ProfileEntries = <<>>) => RecentRatings = <<>>
         /\ (\E i \in DOMAIN ProfileEntries :
                 /\ ProfileEntries[i].userRate = None
                 /\ ProfileEntries[i].span_10 # None
                 /\ contains(Val(ProfileEntries[i].span_10).text, Phrase)
                 /\ (ProfileEntries[i].filmTitle = None
                     \/ PhraseRating(ProfileEntries[i]) = None))
            => RecentRatings = <<>>

\* C9 witness: the call returned an empty list after the profile fetch raised
C9_UnreachableProfileGivesEmpty ==
    /\ upc = "returned"
    /\ Val(upage).raises
    /\ RecentRatings = <<>>

\* C10: whatever scrape_rotten_tomatoes returns has vote_count None, and so
\* has the third rating of the CombinedMovieData.
C10_RottenVoteCountNone ==
    /\ pc["Rotten Tomatoes"] = "done" => Val(result["Rotten Tomatoes"]).vote_count = None
    /\ gpc = "returned" => Val(combined).ratings[3].vote_count = None

\* C10 witness: Rotten Tomatoes returned a rating read from a detail page that
\* has a score-board text, with vote_count None
C10_RottenFoundWithoutVotes ==
    /\ pc["Rotten Tomatoes"] = "done"
    /\ Rating("Rotten Tomatoes") # None
    /\ Val(result["Rotten Tomatoes"]).url # None
    /\ Val(result["Rotten Tomatoes"]).vote_count = None

\* the score node a detail page offers to the scraper of a source
ScoreNodeOf(source, page) ==
    CASE source = "Filmweb" -> page.rateValue
      [] source = "IMDb" -> page.score_span
      [] source = "Rotten Tomatoes" ->
             IF page.criticsScore_rt_text # None THEN page.criticsScore_rt_text
             ELSE page.score_board_rt_text

\* the normalizer C11 describes: surrounding whitespace stripped, for Filmweb
\* the decimal comma made a point, for Rotten Tomatoes the trailing percent
\* sign stripped
ReferenceScoreText(source, text) ==
    LET t == strip(text)
    IN CASE source = "Filmweb" -> replace(t, ",", <<".">>)
         [] source = "IMDb" -> t
         [] source = "Rotten Tomatoes" ->
                IF t # <<>> /\ t[Len(t)] = "%" THEN SubSeq(t, 1, Len(t) - 1) ELSE t

ReferenceRating(source, text) ==
    LET r == float(ReferenceScoreText(source, text))
    IN IF r.ok THEN Some(r.val) ELSE None

\* C11 as stated: the rating a scraper reports for a score text is the number
\* the reference normalizer yields for it (None when it yields none); "8,6"
\* gives 8.6 on Filmweb and "92%" gives 92.0 on Rotten Tomatoes.
C11_ScoreNormalization ==
    (call.fn = "details" /\ out # None /\ ScoreNodeOf(call.source, call.page) # None) =>
        Val(out).value.rating =
            ReferenceRating(call.source, Val(ScoreNodeOf(call.source, call.page)).text)

\* everything scraper t holds
TaskState(t) == <<pc[t], url[t], fetched[t], result[t], failure[t]>>

\* a step of one scraper leaves what the other scrapers hold unchanged
IsolatedStep ==
    gpc' # "idle" =>
        \A s, t \in Sources :
            (s # t /\ TaskState(s)' # TaskState(s)) => TaskState(t)' = TaskState(t)

\* the call has not raised, and each slot of what it returned is the value
\* the scraper of that source returned
SlotsAreOwnResults ==
    /\ gpc # "raised"
    /\ gpc = "returned" =>
         /\ Val(combined).ratings[1] = Val(result["Filmweb"])
         /\ Val(combined).ratings[2] = Val(result["IMDb"])
         /\ Val(combined).ratings[3] = Val(result["Rotten Tomatoes"])

\* C12: under every interleaving, a step of one scraper (a response, a
\* failure, a malformed page) changes nothing held by the other two, each slot
\* of the returned value is the result of its own scraper, and the call never
\* raises.
C12_FailureIsolation == []SlotsAreOwnResults /\ [][IsolatedStep]_vars

\* C12 witness: the call returned with Filmweb failed on its fetch and both
\* IMDb and Rotten Tomatoes reporting the rating they read
C12_OneFailedOthersRated ==
    /\ gpc = "returned"
    /\ failure["Filmweb"] = "fetch"
    /\ Val(combined).ratings[1].rating = None
    /\ Val(combined).ratings[2].rating # None
    /\ Val(combined).ratings[3].rating # None

\* the search of scraper s ended in not-found: its search fetch raised or no
\* selector of its chain matched
NotFoundAtSearch(s) ==
    \/ failure[s] = "no_match"
    \/ failure[s] = "fetch" /\ url[s] = None

SearchNotFoundIsTerminal ==
    \A s \in Sources :
        NotFoundAtSearch(s) =>
            /\ pc[s] = "done"
            /\ Len(fetched[s]) = 1
            /\ Rating(s) = None

DoneStaysDone ==
    \A s \in Sources :
        (pc[s] = "done" /\ gpc' # "idle") =>
            /\ pc'[s] = "done"
            /\ fetched'[s] = fetched[s]
            /\ result'[s] = result[s]

\* C13: a scraper whose search fetch raised or whose search chain matched
\* nothing is done, has issued its search fetch only and returned rating
\* None; and a scraper that is done issues no fetch and keeps its result.
C13_NotFoundAbsorbing == []SearchNotFoundIsTerminal /\ [][DoneStaysDone]_vars

\* C13 witness: Filmweb is done after no selector matched, with one fetch,
\* while IMDb is fetching a detail page
C13_NotFoundWhileOthersRun ==
    /\ pc["Filmweb"] = "done"
    /\ failure["Filmweb"] = "no_match"
    /\ Len(fetched["Filmweb"]) = 1
    /\ pc["IMDb"] = "details"

\* C14: a fetch is only issued on an open client; the client of
\* get_all_ratings is open while the call gathers, is closed only when all
\* three scrapers are done and is closed once the call is over; likewise the
\* client of get_filmweb_user_activity.
C14_ClientScopedToRequest ==
    /\ lateFetch = FALSE
    /\ \A s \in Sources : pc[s] \in {"search", "details"} => client = "open"
    /\ client = "closed" => \A s \in Sources : pc[s] = "done"
    /\ gpc = "gathering" => client = "open"
    /\ gpc \in {"returned", "raised"} => client = "closed"
    /\ gpc = "idle" => (client = "none" /\ \A s \in Sources : fetched[s] = <<>>)
    /\ upc = "fetching" => uclient = "open"
    /\ upc \in {"returned", "raised"} => uclient = "closed"
    /\ upc = "idle" => (uclient = "none" /\ ufetched = <<>>)

\* C14 witness: the call returned and closed its client after all three
\* scrapers had fetched a search and a detail page on it
C14_ClosedAfterSixFetches ==
    /\ gpc = "returned"
    /\ client = "closed"
    /\ \A s \in Sources : Len(fetched[s]) = 2 /\ pc[s] = "done"
    /\ lateFetch = FALSE

\* the search URL of a source for an encoded query
SearchUrl(s, encoded) ==
    CASE s = "Filmweb" ->
             FilmwebOrigin \o <<"/","s","e","a","r","c","h","?","q","=">> \o encoded
      [] s = "IMDb" ->
             ImdbOrigin \o <<"/","f","i","n","d","?","q","=">> \o encoded
                        \o <<"&","s","=","t","t">>
      [] s = "Rotten Tomatoes" ->
             RottenOrigin \o <<"/","s","e","a","r","c","h","?","s","e","a","r","c","h","=">>
                          \o encoded

\* C15 as stated: the search URL of every source carries the encoded query
\* made of the title and, when there is a year, a space and the year; so with
\* a year it differs from the URL for the title alone.
C15_SearchQueryHasYear ==
    \A s \in Sources :
        Len(fetched[s]) >= 1 =>
            /\ fetched[s][1] =
                 SearchUrl(s, quote(IF year # None THEN title \o <<" ">> \o Val(year)
                                    ELSE title))
            /\ year # None => fetched[s][1] # SearchUrl(s, quote(title))

\* the base origin of a source
Origin(s) ==
    CASE s = "Filmweb" -> FilmwebOrigin
      [] s = "IMDb" -> ImdbOrigin
      [] s = "Rotten Tomatoes" -> RottenOrigin

\* the link a search page offers as candidate: the first match of the chain
Candidate(source, page) ==
    CASE source = "Filmweb" ->
             IF page.preview__link # None THEN page.preview__link
             ELSE page.searchResult__link
      [] source = "IMDb" -> page.summary_item
      [] source = "Rotten Tomatoes" ->
             IF page.search_page_result_a # None THEN page.search_page_result_a
             ELSE page.search_results_a

\* a link with a scheme and host is absolute, any other is relative
Absolute(href) ==
    \/ StartsWith(href, <<"h","t","t","p",":","/","/">>)
    \/ StartsWith(href, <<"h","t","t","p","s",":","/","/">>)

ReferenceResolve(source, href) ==
    IF Absolute(href) THEN href ELSE Origin(source) \o href

\* C16 as stated: on every source the candidate link is fetched as it is when
\* absolute and with the origin of the source put before it when relative.
C16_LinkResolution ==
    (/\ call.fn = "result"
     /\ out # None
     /\ Candidate(call.source, call.page) # None
     /\ Val(Candidate(call.source, call.page)).href # None) =>
        Val(out) = Await(ReferenceResolve(call.source,
                             Val(Val(Candidate(call.source, call.page)).href)))

EndsWith(seq, suffix) ==
    /\ Len(suffix) <= Len(seq)
    /\ SubSeq(seq, Len(seq) - Len(suffix) + 1, Len(seq)) = suffix

\* the first match of a two-selector chain
FirstMatch(earlier, later) == IF earlier # None THEN earlier ELSE later

\* the outcome of a search chain: not-found when neither selector matches,
\* otherwise a fetch of the link of the first match
SearchChainInOrder(earlier, later) ==
    LET res == FirstMatch(earlier, later)
    IN IF res = None
       THEN Val(out) = Return(RatingSource(call.source, None, None, None))
       ELSE IF Val(res).href = None
            THEN Val(out) = Raise
            ELSE /\ Val(out).kind = "await"
                 /\ EndsWith(Val(out).url, Val(Val(res).href))

\* C17: the Filmweb search chain (.preview__link, then
\* a.searchResult__link), the Rotten Tomatoes search chain
\* (search-page-result a, then a[data-qa='search-results-link']) and the
\* Rotten Tomatoes score chain (rt-text[slot='criticsScore'], then
\* score-board rt-text) use the first selector that matches, a later one only
\* when the earlier ones match nothing, and give not-found only when none
\* matches.
C17_SelectorChainsInOrder ==
    /\ (call.fn = "result" /\ out # None /\ call.source = "Filmweb") =>
           SearchChainInOrder(call.page.preview__link, call.page.searchResult__link)
    /\ (call.fn = "result" /\ out # None /\ call.source = "Rotten Tomatoes") =>
           SearchChainInOrder(call.page.search_page_result_a, call.page.search_results_a)
    /\ (call.fn = "details" /\ out # None /\ call.source = "Rotten Tomatoes") =>
           LET score_tag == FirstMatch(call.page.criticsScore_rt_text,
                                       call.page.score_board_rt_text)
           IN Val(out).value.rating = scrape_rotten_tomatoes_score(score_tag)

\* C17 witness: both selectors of the Filmweb chain match, with different
\* links, and the link of the first is the one fetched
C17_BothMatchFirstUsed ==
    /\ call.fn = "result" /\ out # None /\ call.source = "Filmweb"
    /\ call.page.preview__link # None
    /\ call.page.searchResult__link # None
    /\ Val(call.page.preview__link).href = Some(<<"/","f","i","l","m","/","1","2","3","4","5">>)
    /\ Val(call.page.searchResult__link).href = Some(<<"h","t","t","p",":","/","/","x">>)
    /\ Val(out) = Await(FilmwebOrigin \o <<"/","f","i","l","m","/","1","2","3","4","5">>)

\* C17 witness: only the later selector of the Rotten Tomatoes score chain
\* matches and its score is the rating
C17_LaterScoreUsed ==
    /\ call.fn = "details" /\ out # None /\ call.source = "Rotten Tomatoes"
    /\ call.page.criticsScore_rt_text = None
    /\ call.page.score_board_rt_text # None
    /\ Val(out).value.rating # None

\* C18: every scraper issues at most one search fetch and then at most one
\* detail fetch; the detail fetch comes only after a search that found a
\* candidate and goes to the URL resolved from it; a scraper whose fetch raised
\* is done, so the fetch is not issued again; scrape_filmweb_user_recent issues
\* exactly one fetch.
C18_NoRetries ==
    /\ \A s \in Sources :
        /\ Len(fetched[s]) <= 2
        /\ pc[s] = "init" => fetched[s] = <<>>
        /\ pc[s] = "search" => Len(fetched[s]) = 1
        /\ pc[s] = "details" => Len(fetched[s]) = 2
        /\ Len(fetched[s]) = 2 =>
             /\ ~NotFoundAtSearch(s)
             /\ url[s] # None
             /\ fetched[s][2] = Val(url[s])
        /\ (last.task = s /\ last.status = 0) => pc[s] = "done"
    /\ upc \in {"fetching", "returned"} => Len(ufetched) = 1

\* C18 witness: the call returned after six fetches, the detail fetch of
\* Filmweb having raised
C18_DetailFetchFailedOnce ==
    /\ gpc = "returned"
    /\ \A s \in Sources : Len(fetched[s]) = 2
    /\ failure["Filmweb"] = "fetch"
    /\ url["Filmweb"] # None

\* scraper s returned not-found: by the early return after a search without
\* match or from its catch-all handler
ReturnedNotFound(s) ==
    \/ failure[s] \in {"no_match", "fetch"}
    \/ failure[s] = "no_href" /\ s # "IMDb"
    \/ failure[s] = "unparsable" /\ s # "Rotten Tomatoes"

\* C19: a returned RatingSource with a rating or a vote count has a url, and
\* a not-found result has rating, vote_count and url all None.
C19_UrlWithData ==
    \A s \in Sources :
        pc[s] = "done" =>
            LET r == Val(result[s])
            IN /\ (r.rating # None \/ r.vote_count # None) => r.url # None
               /\ ReturnedNotFound(s) =>
                    (r.rating = None /\ r.vote_count = None /\ r.url = None)

\* C19 witness: IMDb returned a vote count with its url but no rating, and
\* Filmweb returned not-found from its handler after the detail page was
\* resolved
C19_VotesWithUrlAndNotFound ==
    /\ pc["IMDb"] = "done"
    /\ Val(result["IMDb"]).rating = None
    /\ Val(result["IMDb"]).vote_count # None
    /\ Val(result["IMDb"]).url # None
    /\ pc["Filmweb"] = "done"
    /\ failure["Filmweb"] = "unparsable"
    /\ Val(result["Filmweb"]) = RatingSource("Filmweb", None, None, None)

====
